---- MODULE Spec2Model ----
(***************************************************************************)
(* Model of the forum poller: the profile extraction pipeline              *)
(* (GetUserProfilePage and its field extractors), the latest-post locator  *)
(* (getLatestPost) and the change detector loop (newPostAlert) started by  *)
(* Start with the "new post" callback.                                     *)
(*                                                                         *)
(* Go strings are sequences of one-character strings, so that the string   *)
(* functions the code calls (TrimPrefix, Replace, Trim, Index, Split,      *)
(* Atoi, slicing) are computed and not assumed.  A tree query result       *)
(* (xmlpath Path.String) is a record [found, text].                        *)
(***************************************************************************)
EXTENDS Integers, Sequences, FiniteSets, TLC

(* ------------------------------ bounds --------------------------------- *)

\* Largest single-digit post count the forum page is drawn to show.
MaxPosts == 2

(* ------------------------- Go string functions ------------------------- *)

Digits == <<"0", "1", "2", "3", "4", "5", "6", "7", "8", "9">>

IsDigit(c) == \E i \in 1..10 : Digits[i] = c

DigitVal(c) == (CHOOSE i \in 1..10 : Digits[i] = c) - 1

DigitChar(n) == Digits[n + 1]

HasPrefix(s, p) == Len(s) >= Len(p) /\ SubSeq(s, 1, Len(p)) = p

\* strings.TrimPrefix
TrimPrefix(s, p) == IF HasPrefix(s, p) THEN SubSeq(s, Len(p) + 1, Len(s)) ELSE s

NotComma(c) == c # ","

\* strings.Replace(s, ",", "", -1)
RemoveCommas(s) == SelectSeq(s, NotComma)

InCutset(c) == c \in {"\n", " "}

RECURSIVE TrimLeft(_)
TrimLeft(s) == IF s # <<>> /\ InCutset(Head(s)) THEN TrimLeft(Tail(s)) ELSE s

RECURSIVE TrimRight(_)
TrimRight(s) ==
    IF s # <<>> /\ InCutset(s[Len(s)]) THEN TrimRight(SubSeq(s, 1, Len(s) - 1)) ELSE s

\* strings.Trim(s, "\n ")
Trim(s) == TrimRight(TrimLeft(s))

\* strings.Index: 0-based position of the first occurrence of sub, -1 if none
Index(s, sub) ==
    LET hits == {i \in 0..(Len(s) - Len(sub)) : SubSeq(s, i + 1, i + Len(sub)) = sub}
    IN  IF hits = {} THEN -1 ELSE CHOOSE i \in hits : \A j \in hits : i <= j

\* len(strings.Split(s, "#"))
SplitCount(s) == Cardinality({i \in 1..Len(s) : s[i] = "#"}) + 1

\* strings.Split(s, "#")[1], defined when SplitCount(s) > 1
SplitSecond(s) ==
    LET first == Index(s, <<"#">>) + 1
        rest  == SubSeq(s, first + 1, Len(s))
        nxt   == Index(rest, <<"#">>)
    IN  IF nxt = -1 THEN rest ELSE SubSeq(rest, 1, nxt)

RECURSIVE ParseNat(_)
ParseNat(s) ==
    IF s = <<>> THEN 0
    ELSE ParseNat(SubSeq(s, 1, Len(s) - 1)) * 10 + DigitVal(s[Len(s)])

\* strconv.Atoi: optional sign, then at least one digit and digits only
Atoi(s) ==
    LET signed == s # <<>> /\ s[1] \in {"+", "-"}
        body   == IF signed THEN Tail(s) ELSE s
        ok     == body # <<>> /\ \A i \in 1..Len(body) : IsDigit(body[i])
    IN  IF ~ok THEN [ok |-> FALSE, val |-> 0]
        ELSE [ok |-> TRUE,
              val |-> IF signed /\ s[1] = "-" THEN 0 - ParseNat(body) ELSE ParseNat(body)]

(* ------------------------- tree query results -------------------------- *)

\* xmlpath Path.String: (text, true) or ("", false)
Found(t) == [found |-> TRUE, text |-> t]
NotFound == [found |-> FALSE, text |-> <<>>]

NoErr == "nil"

(* ---------------------------- field extractors ------------------------- *)

getUserName(q) ==
    IF ~q.found THEN [val |-> q.text, err |-> "user name xmlpath did not return a result"]
    ELSE [val |-> Trim(q.text), err |-> NoErr]

JoinDatePrefix == <<"J", "o", "i", "n", " ", "D", "a", "t", "e", ":", " ">>

getJoinDate(q) ==
    IF ~q.found THEN [val |-> q.text, err |-> "join date xmlpath did not return a result"]
    ELSE [val |-> TrimPrefix(q.text, JoinDatePrefix), err |-> NoErr]

TotalPostsPrefix == <<"T", "o", "t", "a", "l", " ", "P", "o", "s", "t", "s", ":", " ">>

getTotalPosts(q) ==
    IF ~q.found THEN [val |-> 0, err |-> "total posts xmlpath did not return a result"]
    ELSE LET n == Atoi(RemoveCommas(TrimPrefix(q.text, TotalPostsPrefix)))
         IN  IF ~n.ok THEN [val |-> 0, err |-> "cannot convert posts to integer"]
             ELSE [val |-> n.val, err |-> NoErr]

ReputationPrefix == <<"R", "e", "p", "u", "t", "a", "t", "i", "o", "n", ":", " ">>

\* r: the pages the reputation pipeline may fetch.
\*   listOk   - GetHTMLRoot of the "find user's posts" listing succeeds
\*   href     - first listed post's reference
\*   targetOk - GetHTMLRoot of the referenced page succeeds
\*   tableId  - id of the post table on the referenced page
\*   repText  - text of the node holding 'Reputation: ' in that table
getReputation(r) ==
    IF ~r.listOk THEN [panic |-> FALSE, val |-> 0, err |-> "cannot get user's posts"]
    ELSE IF ~r.href.found THEN [panic |-> FALSE, val |-> 0, err |-> "cannot get user posts"]
    ELSE IF ~r.targetOk
         THEN [panic |-> FALSE, val |-> 0, err |-> "cannot get user's post in a topic"]
    ELSE IF SplitCount(r.href.text) < 2
         THEN [panic |-> TRUE, val |-> 0, err |-> NoErr]   \* index out of range [1]
    ELSE IF ~(r.tableId = SplitSecond(r.href.text) /\ r.repText.found)
         THEN [panic |-> FALSE, val |-> 0, err |-> "cannot get reputation field from post"]
    ELSE LET n == Atoi(RemoveCommas(TrimPrefix(r.repText.text, ReputationPrefix)))
         IN  IF ~n.ok
             THEN [panic |-> FALSE, val |-> 0, err |-> "cannot convert reputation to integer"]
             ELSE [panic |-> FALSE, val |-> n.val, err |-> NoErr]

getUserBio(q) ==
    IF ~q.found THEN [val |-> q.text, err |-> "user bio xmlpath did not return a result"]
    ELSE [val |-> q.text, err |-> NoErr]

\* One message block kept when both sub-queries find a value.
RECURSIVE CollectMessages(_)
CollectMessages(blocks) ==
    IF blocks = <<>> THEN <<>>
    ELSE LET b == Head(blocks)
         IN  IF b.user.found /\ b.text.found
             THEN <<[UserName |-> b.user.text, Message |-> b.text.text]>>
                      \o CollectMessages(Tail(blocks))
             ELSE CollectMessages(Tail(blocks))

\* blocks: the nodes matched by //*[@id="message_list"]/* in document order
getFirstTenUserVisitorMessages(blocks) ==
    IF blocks = <<>>
    THEN [val |-> <<>>, err |-> "visitor messages xmlpath did not return a result"]
    ELSE [val |-> CollectMessages(blocks), err |-> NoErr]

(* --------------------------- profile assembler ------------------------- *)

ZeroProfile ==
    [UserName |-> <<>>, JoinDate |-> <<>>, TotalPosts |-> 0, Reputation |-> 0,
     BioText |-> <<>>, VisitorMessages |-> <<>>, Errors |-> <<>>]

IsErr(e) == e # NoErr

\* d: the profile page and the pages behind it.  Result: the returned
\* (UserProfile, error) pair, or panic when the call does not return.
GetUserProfilePage(d) ==
    IF ~d.rootOk
    THEN [panic |-> FALSE, err |-> "failed to get HTML root for user page",
          profile |-> ZeroProfile]
    ELSE LET n == getUserName(d.name) IN
         IF n.err # NoErr
         THEN [panic |-> FALSE, err |-> "url did not lead to a valid user page",
               profile |-> [ZeroProfile EXCEPT !.UserName = n.val]]
         ELSE LET j == getJoinDate(d.join)
                  t == getTotalPosts(d.posts)
                  r == getReputation(d.rep)
                  b == getUserBio(d.bio)
                  v == getFirstTenUserVisitorMessages(d.vm)
              IN  IF r.panic
                  THEN [panic |-> TRUE, err |-> NoErr, profile |-> ZeroProfile]
                  ELSE [panic |-> FALSE, err |-> NoErr,
                        profile |->
                          [UserName |-> n.val, JoinDate |-> j.val,
                           TotalPosts |-> t.val, Reputation |-> r.val,
                           BioText |-> b.val, VisitorMessages |-> v.val,
                           Errors |-> SelectSeq(<<j.err, t.err, r.err, b.err, v.err>>,
                                                IsErr)]]

(* ----------------------------- post locator ---------------------------- *)

PostMarker == <<"#", "p", "o", "s", "t">>

PostBody == <<"h", "i">>

\* p: the pages the latest-post pipeline may fetch.
\*   listOk   - GetHTMLRoot of the listing succeeds
\*   title    - //em/a            href - //em/a/@href
\*   targetOk - GetHTMLRoot of the referenced page succeeds
\*   postIds  - the ids N for which the page has a div "post_message_N"
\* postId records the identifier the target-page query was built from.
getLatestPost(p) ==
    LET fail(e) == [panic |-> FALSE, title |-> <<>>, message |-> <<>>, err |-> e,
                    queried |-> FALSE, postId |-> <<>>]
    IN
    IF ~p.listOk THEN fail("cannot get user's posts")
    ELSE IF ~p.title.found THEN fail("cannot get the title of the first post")
    ELSE IF ~p.href.found THEN fail("cannot get user posts")
    ELSE IF ~p.targetOk THEN fail("cannot get user post url")
    ELSE LET href == p.href.text
             from == Index(href, PostMarker) + 5
         IN  IF from > Len(href)
             THEN [fail(NoErr) EXCEPT !.panic = TRUE]   \* slice bounds out of range
             ELSE LET post == SubSeq(href, from + 1, Len(href))
                  IN  IF post \notin p.postIds
                      THEN [fail("cannot get the post") EXCEPT
                                !.queried = TRUE, !.postId = post]
                      ELSE [panic |-> FALSE, title |-> p.title.text,
                            message |-> PostBody, err |-> NoErr,
                            queried |-> TRUE, postId |-> post]

(* ------------------------ pages the forum serves ----------------------- *)

UserNameText == <<"\n", " ", "b", "o", "b", "\n">>

JoinDateQueries == {NotFound, Found(JoinDatePrefix \o <<"2", "0", "1", "0">>)}

\* "Total Posts: n" for small n, one count with a thousands separator, one
\* text that is no number, or no such list item.  A forum post counter is
\* never negative.
TotalPostsQueries ==
    {NotFound}
    \cup {Found(TotalPostsPrefix \o <<DigitChar(n)>>) : n \in 0..MaxPosts}
    \cup {Found(TotalPostsPrefix \o <<"1", ",", "0", "0", "0">>),
          Found(TotalPostsPrefix \o <<"n", "/", "a">>)}

BioQueries == {NotFound, Found(<<" ", "h", "e", "y", "\n">>)}

FullBlockA == [user |-> Found(<<"a">>), text |-> Found(<<"x">>)]
FullBlockB == [user |-> Found(<<"b">>), text |-> Found(<<"y">>)]
NoUserBlock == [user |-> NotFound, text |-> Found(<<"z">>)]
NoTextBlock == [user |-> Found(<<"c">>), text |-> NotFound]

VisitorBlockLists ==
    {<<>>, <<NoUserBlock>>, <<FullBlockB, NoTextBlock, FullBlockA>>}

HrefWithFragment == <<"s", "?", "p", "=", "1", "#", "p", "o", "s", "t", "1">>
HrefNoFragment == <<"s", "?", "p", "=", "1">>

ReputationHrefs == {HrefWithFragment, HrefNoFragment}

TableIds == {<<"p", "o", "s", "t", "1">>, <<"p", "o", "s", "t", "2">>}

ReputationTexts ==
    {NotFound,
     Found(ReputationPrefix \o <<"1", ",", "2", "0", "0">>),
     Found(ReputationPrefix \o <<"-", "3">>),
     Found(ReputationPrefix \o <<"n", "/", "a">>)}

\* Pages that are never fetched are left at a fixed value.
ReputationPages ==
    {[listOk |-> FALSE, href |-> NotFound, targetOk |-> FALSE,
      tableId |-> <<>>, repText |-> NotFound],
     [listOk |-> TRUE, href |-> NotFound, targetOk |-> FALSE,
      tableId |-> <<>>, repText |-> NotFound]}
    \cup {[listOk |-> TRUE, href |-> Found(h), targetOk |-> FALSE,
           tableId |-> <<>>, repText |-> NotFound] : h \in ReputationHrefs}
    \cup {[listOk |-> TRUE, href |-> Found(h), targetOk |-> TRUE,
           tableId |-> t, repText |-> x] :
             h \in ReputationHrefs, t \in TableIds, x \in ReputationTexts}

UnreachableDoc ==
    [rootOk |-> FALSE, name |-> NotFound, join |-> NotFound, posts |-> NotFound,
     rep |-> CHOOSE r \in ReputationPages : ~r.listOk, bio |-> NotFound, vm |-> <<>>]

NoIdentityDoc == [UnreachableDoc EXCEPT !.rootOk = TRUE]

ProfileDocs ==
    {UnreachableDoc, NoIdentityDoc}
    \cup {[rootOk |-> TRUE, name |-> Found(UserNameText), join |-> j, posts |-> t,
           rep |-> r, bio |-> b, vm |-> v] :
             j \in JoinDateQueries, t \in TotalPostsQueries, r \in ReputationPages,
             b \in BioQueries, v \in VisitorBlockLists}

SpecExampleHref ==
    <<"t", "h", "r", "e", "a", "d", ".", "p", "h", "p", "?", "t", "=", "9",
      "#", "p", "o", "s", "t", "1", "2", "3">>

PostHrefs ==
    {SpecExampleHref,
     <<"t", "#", "p", "o", "s", "t">>,
     <<"t", "h", "r", "e", "a", "d", ".", "p", "h", "p", "?", "t", "=", "9">>,
     <<"t", "=", "9">>}

PostIdSets == {{}, {<<"1", "2", "3">>}, {<<"7">>, <<"1", "2", "3">>}}

PostTitle == <<"n", "e", "w", "s">>

NoListingPages ==
    [listOk |-> FALSE, title |-> NotFound, href |-> NotFound, targetOk |-> FALSE,
     postIds |-> {}]

LatestPostPages ==
    {NoListingPages,
     [NoListingPages EXCEPT !.listOk = TRUE],
     [NoListingPages EXCEPT !.listOk = TRUE, !.title = Found(PostTitle)]}
    \cup {[listOk |-> TRUE, title |-> Found(PostTitle), href |-> Found(h),
           targetOk |-> FALSE, postIds |-> {}] : h \in PostHrefs}
    \cup {[listOk |-> TRUE, title |-> Found(PostTitle), href |-> Found(h),
           targetOk |-> TRUE, postIds |-> ids] : h \in PostHrefs, ids \in PostIdSets}

(* ---------------------------- change detector -------------------------- *)

VARIABLES
    pc,             \* where the polling goroutine is: "wait" (at range ticker.C),
                    \* "fetch", "compare", "callback", or "panic" (process died)
    chan,           \* ticks buffered in ticker.C (capacity 1)
    lastPostCount,  \* the loop's baseline, -1 until set
    doc,            \* the pages served to this tick's GetUserProfilePage
    post,           \* the pages served to this tick's getLatestPost
    active,         \* loop bodies started and not yet finished
    panicAt,        \* the call that panicked, "none" while running
    before,         \* history: lastPostCount when the current tick began
    fired,          \* history: callback invocations in the current tick
    ran,            \* history: some tick has run to completion
    okBefore,       \* history: an earlier tick's profile fetch returned nil error
    baseline0,      \* history: the first baseline recorded, -1 until then
    maxSeen,        \* history: largest TotalPosts seen since the baseline was set
    callbacks       \* history: callback invocations so far

vars == <<pc, chan, lastPostCount, doc, post, active, panicAt, before, fired, ran,
          okBefore, baseline0, maxSeen, callbacks>>

Sentinel == -1

Max(a, b) == IF a >= b THEN a ELSE b

\* The (profile, err) pair the current tick got
Fetched == GetUserProfilePage(doc)

Init ==
    /\ pc = "wait"
    /\ chan = 0
    /\ lastPostCount = Sentinel
    /\ doc = UnreachableDoc
    /\ post = NoListingPages
    /\ active = 0
    /\ panicAt = "none"
    /\ before = Sentinel
    /\ fired = 0
    /\ ran = FALSE
    /\ okBefore = FALSE
    /\ baseline0 = Sentinel
    /\ maxSeen = Sentinel
    /\ callbacks = 0

\* A loop body started for every tick, whether or not the previous one is done
LoopTakesTick_MidBody == chan = 1

\* for range ticker.C: the goroutine takes a tick only at the head of the loop
LoopTakesTick == pc = "wait" /\ chan = 1

\* if lastPostCount == -1
IsBaselineTick(last) == last = Sentinel

\* The comparison with <= in place of <
PostCountIncreased_OrEqual(last, total) == last <= total

\* The comparison with != in place of <
PostCountIncreased_AnyChange(last, total) == last # total

\* if lastPostCount < profile.TotalPosts
PostCountIncreased(last, total) == last < total

\* The runtime timer puts a tick in ticker.C; a tick that finds the buffer
\* full is dropped.
TimerFire ==
    /\ pc # "panic"
    /\ chan = 0
    /\ chan' = 1
    /\ UNCHANGED <<pc, lastPostCount, doc, post, active, panicAt, before, fired, ran,
                   okBefore, baseline0, maxSeen, callbacks>>

ReceiveTick ==
    /\ LoopTakesTick
    /\ chan' = 0
    /\ pc' = "fetch"
    /\ active' = active + 1
    /\ before' = lastPostCount
    /\ fired' = 0
    /\ okBefore' = (okBefore \/ (ran /\ Fetched.err = NoErr))
    /\ doc' = UnreachableDoc
    /\ post' = NoListingPages
    /\ UNCHANGED <<lastPostCount, panicAt, ran, baseline0, maxSeen, callbacks>>

\* profile, err := app.GetUserProfilePage(...); an error is only logged
FetchProfile ==
    /\ pc = "fetch"
    /\ \E d \in ProfileDocs :
         /\ doc' = d
         /\ IF GetUserProfilePage(d).panic
            THEN pc' = "panic" /\ panicAt' = "getReputation"
            ELSE pc' = "compare" /\ panicAt' = panicAt
    /\ UNCHANGED <<chan, lastPostCount, post, active, before, fired, ran, okBefore,
                   baseline0, maxSeen, callbacks>>

EndTick ==
    /\ pc' = "wait"
    /\ active' = active - 1
    /\ ran' = TRUE

SetBaseline ==
    /\ pc = "compare"
    /\ IsBaselineTick(lastPostCount)
    /\ lastPostCount' = Fetched.profile.TotalPosts
    /\ baseline0' = IF baseline0 = Sentinel THEN Fetched.profile.TotalPosts ELSE baseline0
    /\ maxSeen' = Fetched.profile.TotalPosts
    /\ EndTick
    /\ UNCHANGED <<chan, doc, post, panicAt, before, fired, okBefore, callbacks>>

InvokeCallback ==
    /\ pc = "compare"
    /\ ~IsBaselineTick(lastPostCount)
    /\ PostCountIncreased(lastPostCount, Fetched.profile.TotalPosts)
    /\ pc' = "callback"
    /\ fired' = fired + 1
    /\ callbacks' = callbacks + 1
    /\ maxSeen' = Max(maxSeen, Fetched.profile.TotalPosts)
    /\ UNCHANGED <<chan, lastPostCount, doc, post, active, panicAt, before, ran,
                   okBefore, baseline0>>

SkipTick ==
    /\ pc = "compare"
    /\ ~IsBaselineTick(lastPostCount)
    /\ ~PostCountIncreased(lastPostCount, Fetched.profile.TotalPosts)
    /\ maxSeen' = Max(maxSeen, Fetched.profile.TotalPosts)
    /\ EndTick
    /\ UNCHANGED <<chan, lastPostCount, doc, post, panicAt, before, fired, okBefore,
                   baseline0, callbacks>>

\* The callback Start registers runs getLatestPost; when it returns, the loop
\* records the new count.
RunCallback ==
    /\ pc = "callback"
    /\ \E p \in LatestPostPages :
         /\ post' = p
         /\ IF getLatestPost(p).panic
            THEN /\ pc' = "panic"
                 /\ panicAt' = "getLatestPost"
                 /\ UNCHANGED <<lastPostCount, active, ran>>
            ELSE /\ lastPostCount' = Fetched.profile.TotalPosts
                 /\ panicAt' = panicAt
                 /\ EndTick
    /\ UNCHANGED <<chan, doc, before, fired, okBefore, baseline0, maxSeen, callbacks>>

Next ==
    \/ TimerFire
    \/ ReceiveTick
    \/ FetchProfile
    \/ SetBaseline
    \/ InvokeCallback
    \/ SkipTick
    \/ RunCallback

Spec == Init /\ [][Next]_vars

TypeOK ==
    /\ pc \in {"wait", "fetch", "compare", "callback", "panic"}
    /\ chan \in 0..1
    /\ lastPostCount \in Int
    /\ doc \in ProfileDocs
    /\ post \in LatestPostPages
    /\ active \in Nat
    /\ panicAt \in {"none", "getReputation", "getLatestPost"}

(* ------------------------------ properties ----------------------------- *)

\* A tick has run to completion and the loop is back at range ticker.C
TickDone == pc = "wait" /\ ran

FetchOk == Fetched.err = NoErr

Observed == Fetched.profile.TotalPosts

TotalPostsErrors ==
    {"total posts xmlpath did not return a result", "cannot convert posts to integer"}

TotalPostsFailed ==
    \E k \in 1..Len(Fetched.profile.Errors) : Fetched.profile.Errors[k] \in TotalPostsErrors

IdentityPresent == doc.rootOk /\ doc.name.found

\* C1: starting from the sentinel, the first tick whose profile fetch
\* succeeds (whether or not earlier ticks failed to fetch) invokes no
\* callback, and after it lastPostCount is the TotalPosts that tick observed.
C1_FirstSuccessfulTickOnlySetsBaseline ==
    (TickDone /\ ~okBefore /\ FetchOk) => (fired = 0 /\ lastPostCount = Observed)

\* C2: in the Tracking state with baseline B, a completed tick that observes
\* TotalPosts = B invokes no callback and keeps B; one that observes more than
\* B invokes the callback exactly once and sets the baseline to the observed
\* value; one whose profile fetch fails invokes no callback and keeps B.
C2_TrackingTick ==
    (TickDone /\ before # Sentinel) =>
        /\ (FetchOk /\ Observed = before) => (fired = 0 /\ lastPostCount = before)
        /\ (FetchOk /\ Observed > before) => (fired = 1 /\ lastPostCount = Observed)
        /\ ~FetchOk => (fired = 0 /\ lastPostCount = before)

C2_Witness ==
    /\ TickDone /\ before # Sentinel /\ FetchOk
    /\ Observed > before /\ fired = 1 /\ lastPostCount = Observed

\* C3: in the Uninitialized state a tick whose profile fetch returns a
\* top-level error leaves lastPostCount at the sentinel and invokes no callback.
C3_FailedFetchKeepsUninitialized ==
    (TickDone /\ before = Sentinel /\ ~FetchOk) => (lastPostCount = Sentinel /\ fired = 0)

\* C4: when total-posts extraction fails on an otherwise successful profile
\* fetch, TotalPosts is 0 and the tick neither changes lastPostCount nor
\* invokes the callback, in either state.
C4_FailedTotalPostsIsNoObservation ==
    (TickDone /\ FetchOk /\ TotalPostsFailed) =>
        (Observed = 0 /\ lastPostCount = before /\ fired = 0)

FieldErr(i) ==
    CASE i = 1 -> getJoinDate(doc.join).err
      [] i = 2 -> getTotalPosts(doc.posts).err
      [] i = 3 -> (IF getReputation(doc.rep).panic THEN "panic"
                   ELSE getReputation(doc.rep).err)
      [] i = 4 -> getUserBio(doc.bio).err
      [] i = 5 -> getFirstTenUserVisitorMessages(doc.vm).err

FailingFields == {i \in 1..5 : FieldErr(i) # NoErr}

FieldZero(i) ==
    LET pr == Fetched.profile
    IN  CASE i = 1 -> pr.JoinDate = <<>>
          [] i = 2 -> pr.TotalPosts = 0
          [] i = 3 -> pr.Reputation = 0
          [] i = 4 -> pr.BioText = <<>>
          [] i = 5 -> pr.VisitorMessages = <<>>

\* C5: whenever the identity anchor is present, GetUserProfilePage returns a
\* nil top-level error whichever of the other five fields fail; each failing
\* field contributes exactly one entry to Errors, in extractor order, and is
\* left at its zero value, and a succeeding field contributes no entry.
C5_PartialFailureIsNotFatal ==
    IdentityPresent =>
        LET errs == Fetched.profile.Errors
        IN  /\ ~Fetched.panic
            /\ Fetched.err = NoErr
            /\ Len(errs) = Cardinality(FailingFields)
            /\ \A i \in FailingFields :
                 /\ \E k \in 1..Len(errs) : errs[k] = FieldErr(i)
                 /\ FieldZero(i)
            /\ \A k1, k2 \in 1..Len(errs) :
                 k1 < k2 => \E i1, i2 \in FailingFields :
                               i1 < i2 /\ errs[k1] = FieldErr(i1) /\ errs[k2] = FieldErr(i2)

ReputationErrors ==
    {"cannot get user's posts", "cannot get user posts",
     "cannot get user's post in a topic", "cannot get reputation field from post",
     "cannot convert reputation to integer"}

\* The first post's reference has no "#" fragment
MalformedReference(r) == r.listOk /\ r.href.found /\ Index(r.href.text, <<"#">>) = -1

ReputationStageFails(r) == MalformedReference(r) \/ getReputation(r).err # NoErr

GoodReputationPages ==
    [listOk |-> TRUE, href |-> Found(HrefWithFragment), targetOk |-> TRUE,
     tableId |-> <<"p", "o", "s", "t", "1">>,
     repText |-> Found(ReputationPrefix \o <<"-", "3">>)]

\* C6: a failure at any stage of the reputation pipeline (listing fetch,
\* missing or malformed reference, unreachable target page, missing container
\* or reputation text, unparseable number) yields exactly one field error and
\* reputation 0 without crashing, and the other fields of the profile are
\* what they would be had reputation succeeded.
C6_ReputationFailureIsOneFieldError ==
    (IdentityPresent /\ ReputationStageFails(doc.rep)) =>
        LET pr  == Fetched.profile
            alt == GetUserProfilePage([doc EXCEPT !.rep = GoodReputationPages]).profile
        IN  /\ ~Fetched.panic
            /\ Fetched.err = NoErr
            /\ Cardinality({k \in 1..Len(pr.Errors) : pr.Errors[k] \in ReputationErrors}) = 1
            /\ pr.Reputation = 0
            /\ pr.UserName = alt.UserName
            /\ pr.JoinDate = alt.JoinDate
            /\ pr.TotalPosts = alt.TotalPosts
            /\ pr.BioText = alt.BioText
            /\ pr.VisitorMessages = alt.VisitorMessages

\* C7: no error ends the polling loop: after a tick in which the profile
\* fetch or any field extraction fails, whatever the failure mode of the
\* reputation pipeline, the loop is running and back at its timer, and an
\* established baseline has not been reset.
C7_LoopSurvivesErrors ==
    /\ panicAt # "getReputation"
    /\ (TickDone /\ before # Sentinel /\ (~FetchOk \/ Fetched.profile.Errors # <<>>)) =>
           (lastPostCount # Sentinel /\ lastPostCount >= before)

\* Some piece the latest-post pipeline needs is missing
MissingPiece(p) ==
    \/ ~p.listOk
    \/ ~p.title.found
    \/ ~p.href.found
    \/ Index(p.href.text, PostMarker) = -1
    \/ ~p.targetOk
    \/ SubSeq(p.href.text, Index(p.href.text, PostMarker) + 6, Len(p.href.text))
           \notin p.postIds

\* C8: getLatestPost is all-or-nothing: with any piece missing (listing,
\* title, reference, "#post" marker, target page, post element) it returns an
\* error with empty title and body; a non-empty title or body comes only with
\* a nil error; and the post-local id is the substring of the reference after
\* "#post".
C8_LatestPostAllOrNothing ==
    LET r == getLatestPost(post)
    IN  /\ MissingPiece(post) =>
               (~r.panic /\ r.err # NoErr /\ r.title = <<>> /\ r.message = <<>>)
        /\ (r.title # <<>> \/ r.message # <<>>) => r.err = NoErr
        /\ (r.queried /\ Index(post.href.text, PostMarker) # -1) =>
               r.postId = SubSeq(post.href.text, Index(post.href.text, PostMarker) + 6,
                                 Len(post.href.text))

\* C9: ticks of the detector never overlap: at most one loop body is in
\* progress, a new one starts only from the head of the loop after the
\* previous one (callback included) has finished, even when timer ticks
\* arrive meanwhile, and lastPostCount changes only inside that one body.
C9_TicksNeverOverlap ==
    /\ [](/\ active <= 1
          /\ pc \in {"fetch", "compare", "callback"} => active = 1
          /\ pc = "wait" => active = 0)
    /\ [][/\ active' > active => (pc = "wait" /\ active = 0)
          /\ lastPostCount' # lastPostCount =>
                 (active = 1 /\ pc \in {"compare", "callback"})]_vars

\* A timer tick arrived while the callback of the running tick is in progress
C9_Witness == pc = "callback" /\ chan = 1 /\ active = 1

\* C10: once set, the baseline never decreases; between ticks it equals the
\* largest TotalPosts seen since it was set, a tick observing no more than
\* the baseline invokes no callback, and the callbacks invoked so far number
\* at most lastPostCount minus the first baseline.
C10_BaselineIsMonotone ==
    /\ []((pc = "wait" /\ lastPostCount # Sentinel) =>
             /\ lastPostCount = maxSeen
             /\ callbacks <= lastPostCount - baseline0
             /\ (ran /\ before # Sentinel /\ Observed <= before) =>
                    (fired = 0 /\ lastPostCount = before))
    /\ [][lastPostCount # Sentinel => lastPostCount' >= lastPostCount]_vars

\* A tick observed fewer posts than a baseline that had already been raised
C10_Witness ==
    /\ TickDone /\ FetchOk /\ ~TotalPostsFailed
    /\ callbacks >= 1
    /\ Observed < lastPostCount
    /\ lastPostCount = before

====
